---- MODULE Spec2Model ----
(***************************************************************************)
(* The `files` command group of reana-client (reana_client/cli/files.py):  *)
(* the commands list (get_files), download (download_files) and upload     *)
(* (upload_files), run against an injected remote client and the local     *)
(* filesystem.  One behaviour is one invocation of one command.            *)
(***************************************************************************)
EXTENDS Integers, Sequences, FiniteSets, TLC

\* Bounds of the model.
MaxFiles == 2      \* number of FILE arguments of download / upload
MaxRecords == 2    \* number of records get_files returns
MaxIds == 2        \* number of identifiers upload_to_server returns

VARIABLES
    cmd,               \* the command invoked: "list", "download" or "upload"
    access_token,      \* --access-token, or REANA_ACCESS_TOKEN, or None
    workflow,          \* --workflow, or REANA_WORKON, or None
    file_,             \* the FILE arguments (file_ of download, filenames of upload)
    output_directory,  \* --output-directory of download
    _filter,           \* --filter of list
    output_format,     \* --json of list: None or "json"
    pc,                \* position in the command body
    idx,               \* position of the for loop over file_ (1-based)
    response,          \* value the remote call in hand returned
    calls,             \* remote client invocations so far, with their outcome
    echo,              \* what click.echo printed so far, both streams, in order
    fsops,             \* local filesystem steps of download so far, with outcome
    dirs,              \* filesystem: the directories (absolute paths)
    files,             \* filesystem: absolute path -> content of regular files
    fs0,               \* the filesystem before the command ran
    raised             \* what left the command body: "none" or an exception

vars == <<cmd, access_token, workflow, file_, output_directory, _filter,
          output_format, pc, idx, response, calls, echo, fsops, dirs, files,
          fs0, raised>>

----------------------------------------------------------------------------
\* Python values

None == "<None>"

\* bool(x) of an optional string: None and '' are falsy
\* (faulty variant: `is not None`, which lets '' through)
MutTruthyNotNone(x) == x # None
Truthy(x) == x \notin {None, ""}

Range(s) == {s[k] : k \in 1..Len(s)}

Front(s) == SubSeq(s, 1, Len(s) - 1)

SeqsUpTo(S, n) == UNION {[1..k -> S] : k \in 0..n}

ProperPrefixes(s) == {SubSeq(s, 1, k) : k \in 0..(Len(s) - 1)}

\* the absolute paths of a path and of all its ancestors, root included
Prefixes(s) == {SubSeq(s, 1, k) : k \in 0..Len(s)}

----------------------------------------------------------------------------
\* Paths.  A path string is its absoluteness flag and its components;
\* the empty string is the relative path with no component.

Path(abs, comps) == [abs |-> abs, comps |-> comps]

EmptyPath == Path(FALSE, <<>>)

\* os.getcwd() of the process
Cwd == <<"home">>

\* os.path.join(a, b) for b without a trailing separator
join(a, b) ==
    IF b.abs THEN b
    ELSE IF a = EmptyPath THEN b
    ELSE Path(a.abs, a.comps \o b.comps)

\* os.path.dirname(p)
dirname(p) == IF p.comps = <<>> THEN p ELSE Path(p.abs, Front(p.comps))

\* the absolute location a path string names
Resolve(p) == IF p.abs THEN p.comps ELSE Cwd \o p.comps

\* os.path.exists(p): False for the empty string
exists(p, ds, fs) ==
    /\ p # EmptyPath
    /\ Resolve(p) \in ds \union DOMAIN fs

\* os.makedirs(d) can succeed: d is not '', and no ancestor is a regular file
CanMakedirs(d, ds, fs) ==
    /\ d # EmptyPath
    /\ Prefixes(Resolve(d)) \intersect DOMAIN fs = {}

\* open(p, 'wb') can succeed: p is no directory and its parent is one
CanOpen(p, ds, fs) ==
    /\ Resolve(p) \notin ds
    /\ Resolve(p) # <<>>
    /\ Front(Resolve(p)) \in ds

----------------------------------------------------------------------------
\* The inputs an invocation can receive

Commands == {"list", "download", "upload"}

Tokens == {None, "", "tok"}

Workflows == {None, "", "wf"}

\* FILE arguments of download: plain, nested, a name that is also the parent
\* of the nested one, and an absolute name
FileNames ==
    { Path(FALSE, <<"a">>),
      Path(FALSE, <<"out", "result.txt">>),
      Path(FALSE, <<"out">>),
      Path(TRUE, <<"tmp", "x", "a">>) }

\* --output-directory: an absolute directory, or the empty string
OutputDirs == { Path(TRUE, <<"tmp", "x">>), EmptyPath }

\* FILE(s) of upload: click.Path(exists=True, resolve_path=True) hands the
\* body existing, absolute paths
UploadPaths == { Path(TRUE, <<"home", "f1">>), Path(TRUE, <<"home", "d">>) }

Filters == { <<>>, <<"name">>, <<"size", "name">> }

OutputFormats == {None, "json"}

BareFs ==
    [dirs |-> {<<>>, <<"tmp">>, Cwd}, files |-> [p \in {} |-> <<>>]]

PopulatedFs ==
    [dirs |-> {<<>>, <<"tmp">>, Cwd, <<"tmp", "x">>},
     files |-> [p \in {<<"tmp", "x", "a">>} |-> <<"old">>]]

FileSystems == {BareFs, PopulatedFs}

----------------------------------------------------------------------------
\* The remote client: what a call can return or raise

Returned(v) == [ok |-> TRUE, kind |-> "", text |-> "", value |-> v]

Raised(kind, text) == [ok |-> FALSE, kind |-> kind, text |-> text, value |-> <<>>]

\* an exception of the OSError family (requests' ConnectionError is one),
\* and one outside it
RemoteErrors ==
    { Raised("OSError", "connection refused"),
      Raised("Exception", "not found") }

Payloads == { <<"b1">>, <<"b2">> }

DownloadOutcomes == {Returned(v) : v \in Payloads} \union RemoteErrors

Ids == {"f1", "d/g"}

UploadOutcomes ==
    {Returned(v) : v \in SeqsUpTo(Ids, MaxIds)}
        \union RemoteErrors
        \union {Raised("FileUploadError", "rejected")}

\* field values of a file record: a number or a string
IntV(n) == [t |-> "int", n |-> n, s |-> ""]

StrV(s) == [t |-> "str", n |-> 0, s |-> s]

\* file records; the last one lacks the 'size' key
FileRecords ==
    { [name |-> StrV("a.txt"), size |-> IntV(10), last_modified |-> StrV("t1")],
      [name |-> StrV("b"), size |-> IntV(0), last_modified |-> StrV("t2")],
      [name |-> StrV("c"), last_modified |-> StrV("t3")] }

ListOutcomes ==
    {Returned(v) : v \in SeqsUpTo(FileRecords, MaxRecords)} \union RemoteErrors

\* a remote invocation and its outcome; arg is the position of the FILE
\* argument it was made for (0 for list)
Call(op, file, arg, out) ==
    [op |-> op, workflow |-> workflow, file |-> file, token |-> access_token,
     arg |-> arg, ok |-> out.ok, kind |-> out.kind, text |-> out.text,
     value |-> out.value]

----------------------------------------------------------------------------
\* Messages of click.echo

NoTable == [format |-> "", headers |-> <<>>, filter |-> <<>>, rows |-> <<>>]

Msg(stream, kind, arg, file, detail) ==
    [stream |-> stream, kind |-> kind, arg |-> arg, file |-> file,
     dir |-> EmptyPath, workflow |-> "", detail |-> detail, table |-> NoTable]

MissingTokenMsg == Msg("err", "missing_access_token", 0, EmptyPath, "")

MissingWorkflowMsg == Msg("err", "missing_workflow", 0, EmptyPath, "")

ListErrorMsg(text) ==
    [Msg("err", "list_error", 0, EmptyPath, text) EXCEPT !.workflow = workflow]

RenderingMsg(kind, table) ==
    [Msg("out", kind, 0, EmptyPath, "") EXCEPT !.table = table]

DownloadedMsg(k, file_name) ==
    [Msg("out", "downloaded", k, file_name, "")
        EXCEPT !.dir = output_directory]

NotWrittenMsg(k, file_name) == Msg("err", "not_written", k, file_name, "")

NotDownloadedMsg(k, file_name, text) ==
    Msg("err", "not_downloaded", k, file_name, text)

UploadedMsg(k, id) == Msg("out", "uploaded", k, EmptyPath, id)

UploadErrorMsg(k, filename, text) ==
    Msg("err", "upload_error", k, filename, text)

UploadFailedMsg(k, filename) == Msg("err", "upload_failed", k, filename, "")

----------------------------------------------------------------------------
Init ==
    /\ cmd \in Commands
    /\ access_token \in Tokens
    /\ workflow \in Workflows
    /\ file_ \in (IF cmd = "download" THEN SeqsUpTo(FileNames, MaxFiles)
                  ELSE IF cmd = "upload" THEN SeqsUpTo(UploadPaths, MaxFiles)
                  ELSE {<<>>})
    /\ output_directory \in (IF cmd = "download" THEN OutputDirs
                             ELSE {Path(TRUE, Cwd)})
    /\ _filter \in (IF cmd = "list" THEN Filters ELSE {<<>>})
    /\ output_format \in (IF cmd = "list" THEN OutputFormats ELSE {None})
    /\ fs0 \in (IF cmd = "download" THEN FileSystems ELSE {BareFs})
    /\ dirs = fs0.dirs
    /\ files = fs0.files
    /\ pc = "start"
    /\ idx = 1
    /\ response = <<>>
    /\ calls = <<>>
    /\ echo = <<>>
    /\ fsops = <<>>
    /\ raised = "none"

inputs == <<cmd, access_token, workflow, file_, output_directory, _filter,
            output_format, fs0>>

\* where the for loop over file_ goes with its index at i
LoopPc(i) == IF i > Len(file_) THEN "done" ELSE "call"

----------------------------------------------------------------------------
\* Exceptions and the except clauses

\* isinstance(e, cls) for the exception kinds of the model: OSError (which
\* IOError is), KeyError and FileUploadError derive from Exception
IsInstance(kind, cls) == kind = cls \/ cls = "Exception"

Handled(msg) == [caught |-> TRUE, msg |-> msg]

NotHandled == [caught |-> FALSE, msg |-> MissingTokenMsg]

\* list: except Exception
\* (faulty variant: a clause that lets OSError through)
MutGetFilesExceptNoOSError(e) ==
    IF IsInstance(e.kind, "Exception") /\ ~IsInstance(e.kind, "OSError")
    THEN Handled(ListErrorMsg(e.text))
    ELSE NotHandled
get_files_Except(e) ==
    IF IsInstance(e.kind, "Exception")
    THEN Handled(ListErrorMsg(e.text))
    ELSE NotHandled

\* download: except OSError, then except Exception, around the whole loop body
download_files_Except(k, file_name, e) ==
    IF IsInstance(e.kind, "OSError")
    THEN Handled(NotWrittenMsg(k, file_name))
    ELSE IF IsInstance(e.kind, "Exception")
    THEN Handled(NotDownloadedMsg(k, file_name, e.text))
    ELSE NotHandled

\* upload: except FileUploadError, then except Exception
\* (faulty variant: the clauses in the other order)
MutUploadExceptGenericFirst(k, filename, e) ==
    IF IsInstance(e.kind, "Exception")
    THEN Handled(UploadFailedMsg(k, filename))
    ELSE IF IsInstance(e.kind, "FileUploadError")
    THEN Handled(UploadErrorMsg(k, filename, e.text))
    ELSE NotHandled
upload_files_Except(k, filename, e) ==
    IF IsInstance(e.kind, "FileUploadError")
    THEN Handled(UploadErrorMsg(k, filename, e.text))
    ELSE IF IsInstance(e.kind, "Exception")
    THEN Handled(UploadFailedMsg(k, filename))
    ELSE NotHandled

\* the effect of an exception e reaching handler result h: a handled one is
\* echoed and the command goes on at nextpc, another one leaves the command
Except(h, e, nextpc) ==
    IF h.caught
    THEN /\ echo' = Append(echo, h.msg)
         /\ pc' = nextpc
         /\ raised' = raised
    ELSE /\ echo' = echo
         /\ pc' = "done"
         /\ raised' = e.kind

----------------------------------------------------------------------------
\* list

HEADERS == <<"name", "size", "last-modified">>

\* str(v)
Str(v) == IF v.t = "int" THEN ToString(v.n) ELSE v.s

HasKeys(r) == {"name", "size", "last_modified"} \subseteq DOMAIN r

\* data: one list of three strings per record, in the order received
\* (faulty variant: rows in reverse order)
MutProjectReversed(resp) ==
    [k \in 1..Len(resp) |->
        LET r == resp[Len(resp) + 1 - k]
        IN <<Str(r.name), Str(r.size), Str(r.last_modified)>>]
Project(resp) ==
    [k \in 1..Len(resp) |->
        <<Str(resp[k].name), Str(resp[k].size), Str(resp[k].last_modified)>>]

\* what is handed to the renderer: tablib's export of the dataset (subset to
\* the filter columns) when an output format is given, click_table_printer
\* otherwise
Rendering(data) ==
    RenderingMsg(IF Truthy(output_format) THEN "dataset" ELSE "table",
                 [format |-> IF Truthy(output_format) THEN output_format ELSE "",
                  headers |-> HEADERS, filter |-> _filter, rows |-> data])

\* the checks of token and workflow
get_files_Check ==
    /\ pc = "start"
    /\ cmd = "list"
    /\ IF ~Truthy(access_token)
       THEN /\ echo' = Append(echo, MissingTokenMsg)
            /\ raised' = "SystemExit(1)"
            /\ pc' = "done"
       ELSE IF Truthy(workflow)
       THEN /\ pc' = "call"
            /\ UNCHANGED <<echo, raised>>
       ELSE /\ echo' = Append(echo, MissingWorkflowMsg)
            /\ pc' = "done"
            /\ UNCHANGED raised
    /\ UNCHANGED <<inputs, idx, response, calls, fsops, dirs, files>>

\* response = ctx.obj.client.get_files(workflow, access_token)
get_files_Call ==
    /\ pc = "call"
    /\ cmd = "list"
    /\ \E out \in ListOutcomes :
        /\ calls' = Append(calls, Call("get_files", EmptyPath, 0, out))
        /\ IF out.ok
           THEN /\ response' = out.value
                /\ pc' = "render"
                /\ UNCHANGED <<echo, raised>>
           ELSE /\ response' = response
                /\ Except(get_files_Except(out), out, "done")
    /\ UNCHANGED <<inputs, idx, fsops, dirs, files>>

\* the projection of the records and the rendering; the renderer either
\* prints the whole rendering or raises before printing
get_files_Render ==
    /\ pc = "render"
    /\ cmd = "list"
    /\ \E renderer \in {Returned(<<>>), Raised("Exception", "cannot render")} :
        LET keyError == Raised("KeyError", "'size'")
        IN IF \E k \in 1..Len(response) : ~HasKeys(response[k])
           THEN Except(get_files_Except(keyError), keyError, "done")
           ELSE IF ~renderer.ok
           THEN Except(get_files_Except(renderer), renderer, "done")
           ELSE /\ echo' = Append(echo, Rendering(Project(response)))
                /\ pc' = "done"
                /\ UNCHANGED raised
    /\ response' = <<>>
    /\ UNCHANGED <<inputs, idx, calls, fsops, dirs, files>>

----------------------------------------------------------------------------
\* download

\* the checks of token and workflow before the loop
\* (faulty variant: a missing workflow exits with status 1 too)
MutDownloadCheckExitNoWorkflow ==
    /\ pc = "start"
    /\ cmd = "download"
    /\ IF ~Truthy(access_token)
       THEN /\ echo' = Append(echo, MissingTokenMsg)
            /\ raised' = "SystemExit(1)"
            /\ pc' = "done"
       ELSE IF Truthy(workflow)
       THEN /\ pc' = LoopPc(1)
            /\ UNCHANGED <<echo, raised>>
       ELSE /\ echo' = Append(echo, MissingWorkflowMsg)
            /\ raised' = "SystemExit(1)"
            /\ pc' = "done"
    /\ UNCHANGED <<inputs, idx, response, calls, fsops, dirs, files>>
download_files_Check ==
    /\ pc = "start"
    /\ cmd = "download"
    /\ IF ~Truthy(access_token)
       THEN /\ echo' = Append(echo, MissingTokenMsg)
            /\ raised' = "SystemExit(1)"
            /\ pc' = "done"
       ELSE IF Truthy(workflow)
       THEN /\ pc' = LoopPc(1)
            /\ UNCHANGED <<echo, raised>>
       ELSE /\ echo' = Append(echo, MissingWorkflowMsg)
            /\ pc' = "done"
            /\ UNCHANGED raised
    /\ UNCHANGED <<inputs, idx, response, calls, fsops, dirs, files>>

\* binary_file = ctx.obj.client.download_file(workflow, file_name, access_token)
\* and the except clauses for what it raises
\* (faulty variant: the next file is requested before this one is written)
MutDownloadCallPipelined ==
    /\ pc = "call"
    /\ cmd = "download"
    /\ \E out \in DownloadOutcomes :
        /\ calls' = Append(calls, Call("download_file", file_[idx], idx, out))
        /\ IF out.ok
           THEN /\ response' = out.value
                /\ pc' = IF idx < Len(file_) THEN "call" ELSE "write"
                /\ idx' = IF idx < Len(file_) THEN idx + 1 ELSE idx
                /\ UNCHANGED <<echo, raised>>
           ELSE /\ response' = response
                /\ idx' = idx + 1
                /\ Except(download_files_Except(idx, file_[idx], out), out,
                          LoopPc(idx + 1))
    /\ UNCHANGED <<inputs, fsops, dirs, files>>
download_files_Call ==
    /\ pc = "call"
    /\ cmd = "download"
    /\ \E out \in DownloadOutcomes :
        /\ calls' = Append(calls, Call("download_file", file_[idx], idx, out))
        /\ IF out.ok
           THEN /\ response' = out.value
                /\ pc' = "write"
                /\ UNCHANGED <<idx, echo, raised>>
           ELSE /\ response' = response
                /\ idx' = idx + 1
                /\ Except(download_files_Except(idx, file_[idx], out), out,
                          LoopPc(idx + 1))
    /\ UNCHANGED <<inputs, fsops, dirs, files>>

\* what the environment can make fail in the local filesystem steps
\* (permissions, a full disk), besides what the state of the filesystem decides
EnvFaults == {"none", "makedirs", "open", "write"}

\* the filesystem step that raises OSError, or "ok": makedirs when the parent
\* is reported missing, then open, then write
FsOutcome(path, env) ==
    LET d == dirname(path)
        missing == ~exists(d, dirs, files)
        dirs1 == IF missing THEN dirs \union Prefixes(Resolve(d)) ELSE dirs
    IN IF missing /\ (env = "makedirs" \/ ~CanMakedirs(d, dirs, files))
       THEN "makedirs"
       ELSE IF env = "open" \/ ~CanOpen(path, dirs1, files)
       THEN "open"
       ELSE IF env = "write"
       THEN "write"
       ELSE "ok"

\* the regular files after open(path, 'wb') and a write of content
\* (faulty variant: mode 'ab', which keeps what the file held)
MutWriteAppend(fs, rp, content) ==
    [q \in DOMAIN fs \union {rp} |->
        IF q = rp
        THEN (IF rp \in DOMAIN fs THEN fs[rp] ELSE <<>>) \o content
        ELSE fs[q]]
WriteFile(fs, rp, content) ==
    [q \in DOMAIN fs \union {rp} |-> IF q = rp THEN content ELSE fs[q]]

\* outputs_file_path = os.path.join(...) up to the success message, and the
\* except clauses for what the filesystem raises
download_files_Write ==
    /\ pc = "write"
    /\ cmd = "download"
    /\ \E env \in EnvFaults, partial \in ProperPrefixes(response) \union {<<>>} :
        LET file_name == file_[idx]
            outputs_file_path == join(output_directory, file_name)
            d == dirname(outputs_file_path)
            rp == Resolve(outputs_file_path)
            result == FsOutcome(outputs_file_path, env)
            oserror == Raised("OSError", result)
        IN /\ fsops' = Append(fsops, [arg |-> idx, path |-> rp, result |-> result])
           /\ dirs' = IF ~exists(d, dirs, files) /\ result # "makedirs"
                      THEN dirs \union Prefixes(Resolve(d))
                      ELSE dirs
           /\ files' = IF result = "ok" THEN WriteFile(files, rp, response)
                       ELSE IF result = "write" THEN WriteFile(files, rp, partial)
                       ELSE files
           /\ IF result = "ok"
              THEN /\ echo' = Append(echo, DownloadedMsg(idx, file_name))
                   /\ pc' = LoopPc(idx + 1)
                   /\ UNCHANGED raised
              ELSE Except(download_files_Except(idx, file_name, oserror),
                          oserror, LoopPc(idx + 1))
    /\ idx' = idx + 1
    /\ response' = <<>>
    /\ UNCHANGED <<inputs, calls>>

----------------------------------------------------------------------------
\* upload

\* the checks of token and workflow before the loop
upload_files_Check ==
    /\ pc = "start"
    /\ cmd = "upload"
    /\ IF ~Truthy(access_token)
       THEN /\ echo' = Append(echo, MissingTokenMsg)
            /\ raised' = "SystemExit(1)"
            /\ pc' = "done"
       ELSE IF Truthy(workflow)
       THEN /\ pc' = LoopPc(1)
            /\ UNCHANGED <<echo, raised>>
       ELSE /\ echo' = Append(echo, MissingWorkflowMsg)
            /\ pc' = "done"
            /\ UNCHANGED raised
    /\ UNCHANGED <<inputs, idx, response, calls, fsops, dirs, files>>

\* response = ctx.obj.client.upload_to_server(workflow, filename, access_token)
\* and the except clauses for what it raises
\* (faulty variant: the loop ends at the first failure)
MutUploadCallBreakOnError ==
    /\ pc = "call"
    /\ cmd = "upload"
    /\ \E out \in UploadOutcomes :
        /\ calls' = Append(calls, Call("upload_to_server", file_[idx], idx, out))
        /\ IF out.ok
           THEN /\ response' = out.value
                /\ pc' = "report"
                /\ UNCHANGED <<idx, echo, raised>>
           ELSE /\ response' = response
                /\ idx' = idx + 1
                /\ Except(upload_files_Except(idx, file_[idx], out), out, "done")
    /\ UNCHANGED <<inputs, fsops, dirs, files>>
upload_files_Call ==
    /\ pc = "call"
    /\ cmd = "upload"
    /\ \E out \in UploadOutcomes :
        /\ calls' = Append(calls, Call("upload_to_server", file_[idx], idx, out))
        /\ IF out.ok
           THEN /\ response' = out.value
                /\ pc' = "report"
                /\ UNCHANGED <<idx, echo, raised>>
           ELSE /\ response' = response
                /\ idx' = idx + 1
                /\ Except(upload_files_Except(idx, file_[idx], out), out,
                          LoopPc(idx + 1))
    /\ UNCHANGED <<inputs, fsops, dirs, files>>

\* for file_ in response: one success message per identifier
upload_files_Report ==
    /\ pc = "report"
    /\ cmd = "upload"
    /\ echo' = echo \o [k \in 1..Len(response) |-> UploadedMsg(idx, response[k])]
    /\ idx' = idx + 1
    /\ pc' = LoopPc(idx + 1)
    /\ response' = <<>>
    /\ UNCHANGED <<inputs, calls, fsops, dirs, files, raised>>

----------------------------------------------------------------------------
Next ==
    \/ get_files_Check
    \/ get_files_Call
    \/ get_files_Render
    \/ download_files_Check
    \/ download_files_Call
    \/ download_files_Write
    \/ upload_files_Check
    \/ upload_files_Call
    \/ upload_files_Report

Spec == Init /\ [][Next]_vars

----------------------------------------------------------------------------
\* Vocabulary of the properties

TokenMissing == access_token = None \/ access_token = ""

WorkflowMissing == workflow = None \/ workflow = ""

Proceeds == ~TokenMissing /\ ~WorkflowMissing

FsUntouched == dirs = fs0.dirs /\ files = fs0.files /\ fsops = <<>>

\* the messages printed while FILE argument a was handled
MsgsOf(a) == SelectSeq(echo, LAMBDA m : m.arg = a)

CallsOf(a) == SelectSeq(calls, LAMBDA c : c.arg = a)

FsopsOf(a) == SelectSeq(fsops, LAMBDA f : f.arg = a)

\* FILE argument a has been handled: the loop is past it
Past(a) == a < idx \/ pc = "done"

\* C1: with the access token absent or empty, each command prints the
\* missing-access-token message to the error stream and exits with status 1
\* (sys.exit(1)); no remote client operation is invoked and the local
\* filesystem is left as it was, whatever workflow and files were given.
C1_MissingToken ==
    TokenMissing =>
        /\ calls = <<>>
        /\ FsUntouched
        /\ pc \in {"start", "done"}
        /\ pc = "start" => echo = <<>> /\ raised = "none"
        /\ pc = "done" =>
              /\ echo = <<MissingTokenMsg>>
              /\ echo[1].stream = "err"
              /\ raised = "SystemExit(1)"

C1_Witness ==
    /\ pc = "done"
    /\ cmd = "upload"
    /\ access_token = ""
    /\ workflow = "wf"
    /\ Len(file_) >= 1
    /\ raised = "SystemExit(1)"

\* C2: with a token but the workflow absent or empty, each command prints the
\* missing-workflow message to the error stream exactly once, invokes no
\* remote client operation, writes no local file, and returns normally.
C2_MissingWorkflow ==
    (~TokenMissing /\ WorkflowMissing) =>
        /\ calls = <<>>
        /\ FsUntouched
        /\ raised = "none"
        /\ pc \in {"start", "done"}
        /\ pc = "start" => echo = <<>>
        /\ pc = "done" => echo = <<MissingWorkflowMsg>> /\ echo[1].stream = "err"

C2_Witness ==
    /\ pc = "done"
    /\ cmd = "download"
    /\ access_token = "tok"
    /\ workflow = None
    /\ Len(file_) >= 1
    /\ echo = <<MissingWorkflowMsg>>

\* C3 (as claimed): in a download, every file whose download_file call raised,
\* whatever the kind of the exception, is reported "could not be downloaded"
\* and not "could not be written", and download_file is still invoked for the
\* later files.
C3_RemoteFailureIsNotDownloaded ==
    (cmd = "download" /\ Proceeds) =>
        /\ \A k \in 1..Len(calls) :
              (~calls[k].ok /\ Past(calls[k].arg)) =>
                  /\ \E j \in 1..Len(echo) :
                        /\ echo[j].arg = calls[k].arg
                        /\ echo[j].kind = "not_downloaded"
                  /\ \A j \in 1..Len(echo) :
                        echo[j].arg = calls[k].arg => echo[j].kind # "not_written"
        /\ pc = "done" => Len(calls) = Len(file_)

\* C4: in an upload with token and workflow, upload_to_server is invoked
\* exactly once per file path, in argument order, with that path, the workflow
\* and the token, whichever of the earlier uploads failed.
C4_UploadEachOnce ==
    (cmd = "upload" /\ Proceeds) =>
        /\ Len(calls) <= Len(file_)
        /\ \A k \in 1..Len(calls) :
              /\ calls[k].op = "upload_to_server"
              /\ calls[k].file = file_[k]
              /\ calls[k].workflow = workflow
              /\ calls[k].token = access_token
        /\ pc = "done" => Len(calls) = Len(file_)

C4_Witness ==
    /\ pc = "done"
    /\ cmd = "upload"
    /\ Len(file_) = 2
    /\ Len(calls) = 2
    /\ calls[1].kind = "FileUploadError"
    /\ calls[2].kind = "OSError"


\* the destination of FILE argument a of download
Destination(a) == Resolve(join(output_directory, file_[a]))

\* the payload download_file returned for FILE argument a
PayloadOf(a) == CallsOf(a)[1].value

\* the local step k wrote its file completely
WrittenAt(k) ==
    /\ fsops[k].result = "ok"
    /\ Len(CallsOf(fsops[k].arg)) = 1
    /\ CallsOf(fsops[k].arg)[1].ok

\* a later step of the same invocation opened the destination of step k again
ReopenedAfter(k) ==
    \E j \in (k + 1)..Len(fsops) :
        fsops[j].path = fsops[k].path /\ fsops[j].result \in {"ok", "write"}

\* a success message is printed for exactly the files completely written
SuccessIffWritten ==
    /\ \A k \in 1..Len(fsops) :
          fsops[k].result = "ok" =>
              MsgsOf(fsops[k].arg) =
                  << DownloadedMsg(fsops[k].arg, file_[fsops[k].arg]) >>
    /\ \A j \in 1..Len(echo) :
          echo[j].kind = "downloaded" =>
              /\ echo[j].stream = "out"
              /\ \E k \in 1..Len(fsops) : fsops[k].arg = echo[j].arg /\ WrittenAt(k)

\* the file of step k holds the payload, below directories that all exist
HoldsPayload(k) ==
    /\ fsops[k].path = Destination(fsops[k].arg)
    /\ fsops[k].path \in DOMAIN files
    /\ files[fsops[k].path] = PayloadOf(fsops[k].arg)
    /\ Prefixes(Front(fsops[k].path)) \subseteq dirs

\* C5 (as claimed): after a download, for every requested file whose remote
\* call and local write succeeded, the destination (output directory joined
\* with the file name) holds exactly the payload returned for it, its parent
\* directories exist, and a success message is printed for exactly these files.
\* (For a name given more than once, the payload of any of its calls counts.)
C5_EveryWrittenFileHoldsPayload ==
    (cmd = "download" /\ Proceeds /\ pc = "done") =>
        /\ \A k \in 1..Len(fsops) :
              WrittenAt(k) =>
                  \E j \in 1..Len(fsops) :
                      /\ WrittenAt(j)
                      /\ file_[fsops[j].arg] = file_[fsops[k].arg]
                      /\ HoldsPayload(j)
        /\ SuccessIffWritten

\* C5 (amended): as claimed, for every such file whose destination no later
\* file argument of the same invocation opened again; the property holds from
\* the moment the file has been handled.
C5_WrittenFileHoldsPayload ==
    (cmd = "download" /\ Proceeds) =>
        /\ \A k \in 1..Len(fsops) :
              (WrittenAt(k) /\ ~ReopenedAfter(k)) => HoldsPayload(k)
        /\ \A k \in 1..Len(fsops) : fsops[k].result = "ok" => WrittenAt(k)
        /\ SuccessIffWritten

C5_Witness ==
    /\ pc = "done"
    /\ cmd = "download"
    /\ output_directory = Path(TRUE, <<"tmp", "x">>)
    /\ fs0 = BareFs
    /\ Len(fsops) = 2
    /\ fsops[1].path = <<"tmp", "x", "out", "result.txt">>
    /\ WrittenAt(1)
    /\ files[fsops[1].path] = <<"b2">>
    /\ <<"tmp", "x", "out">> \in dirs
    /\ fsops[2].path = <<"tmp", "x", "a">>
    /\ WrittenAt(2)

\* C6: with an access token present every command returns normally: nothing
\* raised by the remote client, the rendering or the local filesystem leaves
\* the command body, and the command always reaches its end.  The exit status
\* is non-zero exactly when the access token is missing.
C6_ExitStatus ==
    /\ raised \in {"none", "SystemExit(1)"}
    /\ raised = "SystemExit(1)" => pc = "done" /\ TokenMissing
    /\ pc = "done" => (raised = "SystemExit(1)" <=> TokenMissing)
    /\ pc # "done" => ENABLED Next

C6_Witness ==
    /\ pc = "done"
    /\ cmd = "download"
    /\ raised = "none"
    /\ Len(calls) = 2
    /\ ~calls[1].ok
    /\ calls[2].ok
    /\ Len(fsops) = 1
    /\ fsops[1].result = "write"

\* the rendering m shows the records of call c: one row of three strings per
\* record, in the order returned
ShowsRecords(m, c) ==
    /\ c.ok
    /\ \A k \in 1..Len(c.value) : HasKeys(c.value[k])
    /\ m.stream = "out"
    /\ m.kind = (IF output_format \in {None, ""} THEN "table" ELSE "dataset")
    /\ m.table.headers = <<"name", "size", "last-modified">>
    /\ m.table.filter = _filter
    /\ Len(m.table.rows) = Len(c.value)
    /\ \A k \in 1..Len(c.value) :
          m.table.rows[k] = << Str(c.value[k].name), Str(c.value[k].size),
                               Str(c.value[k].last_modified) >>

\* C7: list with token and workflow invokes get_files exactly once and emits
\* exactly one of: a rendering with one (name, size, last-modified) string row
\* per remote record in the order returned (a dataset when an output format is
\* requested, a table otherwise, with the filter columns), or one error
\* message naming the workflow and the error text; never both.
C7_ListOnceOneOutput ==
    (cmd = "list" /\ Proceeds) =>
        /\ Len(calls) <= 1
        /\ pc \in {"start", "call"} => calls = <<>> /\ echo = <<>>
        /\ pc = "render" => Len(calls) = 1 /\ echo = <<>>
        /\ pc = "done" =>
              /\ Len(calls) = 1
              /\ calls[1].op = "get_files"
              /\ calls[1].workflow = workflow
              /\ calls[1].token = access_token
              /\ Len(echo) = 1
              /\ \/ ShowsRecords(echo[1], calls[1])
                 \/ /\ echo[1].kind = "list_error"
                    /\ echo[1].stream = "err"
                    /\ echo[1].workflow = workflow
                    /\ ~calls[1].ok => echo[1].detail = calls[1].text

C7_Witness ==
    /\ pc = "done"
    /\ cmd = "list"
    /\ output_format = "json"
    /\ _filter = <<"size", "name">>
    /\ Len(echo) = 1
    /\ echo[1].kind = "dataset"
    /\ echo[1].table.rows = << <<"b", "0", "t2">>, <<"a.txt", "10", "t1">> >>


\* C8 (as claimed): in a download, a file whose remote call succeeded and whose
\* local filesystem step failed gets exactly one "could not be written"
\* message, without error detail, and no success message, and the loop goes
\* on; and "could not be written" is printed for a file only if a local
\* filesystem operation failed for it.
C8_NotWrittenIffLocalFailure ==
    (cmd = "download" /\ Proceeds) =>
        /\ \A k \in 1..Len(fsops) :
              fsops[k].result # "ok" =>
                  /\ MsgsOf(fsops[k].arg) =
                        << NotWrittenMsg(fsops[k].arg, file_[fsops[k].arg]) >>
                  /\ MsgsOf(fsops[k].arg)[1].detail = ""
        /\ pc = "done" => Len(calls) = Len(file_)
        /\ \A j \in 1..Len(echo) :
              echo[j].kind = "not_written" =>
                  \E k \in 1..Len(fsops) :
                      fsops[k].arg = echo[j].arg /\ fsops[k].result # "ok"

\* C9: in an upload, the outcome reported for each file path is exactly one
\* of: one success message per returned identifier, in order, and no error
\* message; one error message naming the path with the text of the upload
\* error; one generic error message naming the path without exception text.
C9_UploadOutcome ==
    (cmd = "upload" /\ Proceeds) =>
        \A k \in 1..Len(calls) :
            Past(calls[k].arg) =>
                LET c == calls[k]
                    msgs == MsgsOf(c.arg)
                IN IF c.ok
                   THEN /\ Len(msgs) = Len(c.value)
                        /\ \A j \in 1..Len(msgs) :
                              /\ msgs[j].kind = "uploaded"
                              /\ msgs[j].stream = "out"
                              /\ msgs[j].detail = c.value[j]
                   ELSE /\ Len(msgs) = 1
                        /\ msgs[1].stream = "err"
                        /\ msgs[1].file = c.file
                        /\ IF c.kind = "FileUploadError"
                           THEN /\ msgs[1].kind = "upload_error"
                                /\ msgs[1].detail = c.text
                           ELSE /\ msgs[1].kind = "upload_failed"
                                /\ msgs[1].detail = ""

C9_Witness ==
    /\ pc = "done"
    /\ cmd = "upload"
    /\ Len(calls) = 2
    /\ calls[1].kind = "FileUploadError"
    /\ calls[2].ok
    /\ Len(calls[2].value) = 2
    /\ Len(echo) = 3

\* the remote call k has been completely handled: its failure is reported, or
\* its local write is over and reported, or its identifiers are all reported
Complete(k) ==
    LET c == calls[k]
    IN IF ~c.ok THEN Len(MsgsOf(c.arg)) = 1
       ELSE IF cmd = "download"
       THEN Len(FsopsOf(c.arg)) = 1 /\ Len(MsgsOf(c.arg)) = 1
       ELSE Len(MsgsOf(c.arg)) = Len(c.value)

\* C10: download and upload handle their files strictly one after the other,
\* in argument order: the remote call for a file is issued only when every
\* earlier file is completely handled, at most one file is in progress, and
\* the outcome messages appear in argument order.
C10_Sequential ==
    (cmd \in {"download", "upload"} /\ Proceeds) =>
        /\ \A k \in 1..Len(calls) : calls[k].arg = k /\ calls[k].file = file_[k]
        /\ \A k \in 1..(Len(calls) - 1) : Complete(k)
        /\ pc \in {"write", "report"} =>
              /\ Len(calls) = idx
              /\ MsgsOf(idx) = <<>>
              /\ FsopsOf(idx) = <<>>
        /\ pc \in {"call", "done"} => \A k \in 1..Len(calls) : Complete(k)
        /\ pc = "call" => Len(calls) = idx - 1
        /\ \A j, k \in 1..Len(echo) : j < k => echo[j].arg <= echo[k].arg
        /\ \A j, k \in 1..Len(fsops) : j < k => fsops[j].arg < fsops[k].arg
        /\ \A k \in 1..Len(echo) : echo[k].arg \in 1..Len(calls)
        /\ \A k \in 1..Len(fsops) : fsops[k].arg \in 1..Len(calls)

C10_Witness ==
    /\ pc = "write"
    /\ cmd = "download"
    /\ idx = 2
    /\ Len(calls) = 2
    /\ calls[1].ok
    /\ Len(fsops) = 1
    /\ Len(echo) = 1

====
